---- MODULE Spec2Model ----
(***************************************************************************)
(* Post detail page of the blog: getStaticProps (data assembly, in its two *)
(* variants: with preview support and without) and the part of the Post    *)
(* component that derives the reading time.                                *)
(*                                                                         *)
(* The document store (Prismic) is an external collaborator.  Its state is *)
(* the set of published documents; the order it gives to documents that    *)
(* share a first_publication_date is not fixed by anything in the code, so *)
(* every query picks one of the orders compatible with the requested       *)
(* ordering.  A lookup may also reject (network or store error).           *)
(***************************************************************************)
EXTENDS Integers, Sequences, FiniteSets, TLC

\* ---------------------------------------------------------------- bounds
MaxDocs == 3
MaxDate == 2
MaxBlocks == 2

\* ------------------------------------------------------ program constants
WordsPerMinute == 200
PageSize == 1
Revalidate == 60 * 5

\* ------------------------------------------------------------ data model
\* first_publication_date / last_publication_date: string | null.  A date
\* string is modelled by its timestamp (> 0), null by Null.
Null == -1
Dates == 1..MaxDate
Ids == 1..MaxDocs
Slugs == 1..(MaxDocs + 1)
Types == {"pages", "posts"}
Tokens == {"ref1", "ref2"}
NullRef == "null"
UndefinedRef == "undefined"

\* What a query returns of a document (id, type, first_publication_date).
Doc(id, type, first) == [id |-> id, type |-> type, first |-> first]
\* `null` and `undefined` where a document is expected.
NullDoc == [id |-> 0, type |-> "null", first |-> Null]
UndefinedDoc == [id |-> 0, type |-> "undefined", first |-> Null]

\* The Post interface: the fetched document with its last_publication_date.
PostRecord(d, last) ==
  [id |-> d.id, type |-> d.type, first |-> d.first, last |-> last]
UndefinedPost == [id |-> 0, type |-> "undefined", first |-> Null, last |-> Null]

VARIABLES
  store,        \* published documents: id -> [type, first]
  pc,           \* position in getStaticProps
  variant,      \* "preview" (first getStaticProps) or "plain" (second one)
  slug,         \* params.slug
  context,      \* preview / previewData handed in by the framework
  fetchRef,     \* the ref option given to getByUID
  fetchStatus,  \* how getByUID ended
  response,     \* const response
  nextPost,     \* const nextPost (the query response)
  prevPost,     \* const prevPost (the query response)
  nextStatus,   \* how the next-post query ended
  prevStatus,   \* how the previous-post query ended
  queries,      \* the neighbour queries issued so far
  outcome,      \* what getStaticProps returned or threw
  content,      \* post.data.content handed to the Post component
  isFallback,   \* useRouter().isFallback
  rpc,          \* position in the Post component
  index,        \* reduce: next content block
  accumulator,  \* reduce: accumulator
  readingTime   \* const readingTime

gspVars == <<store, pc, variant, slug, context, fetchRef, fetchStatus, response,
             nextPost, prevPost, nextStatus, prevStatus, queries, outcome>>
postVars == <<content, isFallback, rpc, index, accumulator, readingTime>>
vars == <<gspVars, postVars>>

\* ------------------------------------------------------------- the store
DocsOf(st) == {Doc(i, st[i].type, st[i].first) : i \in DOMAIN st}

Stores ==
  UNION {[1..n -> [type : Types, first : Dates]] : n \in 0..MaxDocs}

\* Prismic.Predicates.at('document.type', 'posts')
AtType(docs, type) == {d \in docs : d.type = type}
\* Prismic.Predicates.dateAfter('document.first_publication_date', date)
DateAfter(docs, date) == {d \in docs : d.first > date}
\* Prismic.Predicates.dateBefore('document.first_publication_date', date)
DateBefore(docs, date) == {d \in docs : d.first < date}

\* orderings: '[document.first_publication_date]' (asc) or '... desc': the
\* orders of the matching documents the store may answer with.
Orderings(docs, desc) ==
  LET n == Cardinality(docs)
  IN  {s \in [1..n -> docs] :
         /\ \A i, j \in 1..n : i # j => s[i] # s[j]
         /\ \A i \in 1..n : \A j \in 1..n :
              i < j => IF desc THEN s[i].first >= s[j].first
                               ELSE s[i].first <= s[j].first}

\* after: `${response.id}`: the documents that follow that id in the order.
After(s, id) ==
  LET at == {i \in 1..Len(s) : s[i].id = id}
  IN  IF at = {} THEN s
      ELSE LET k == CHOOSE i \in at : TRUE
           IN  SubSeq(s, k + 1, Len(s))

\* pageSize: the first page of the results.
Page(s, size) == SubSeq(s, 1, IF Len(s) < size THEN Len(s) ELSE size)

\* ------------------------------------------------------- getStaticProps
\* The contexts the framework calls getStaticProps with: outside preview mode
\* neither preview nor previewData is set; in preview mode preview is true
\* and previewData holds the revision reference stored by the preview route.
Contexts ==
  {[preview |-> "undefined", hasPreviewData |-> FALSE, ref |-> UndefinedRef]}
  \cup {[preview |-> "true", hasPreviewData |-> TRUE, ref |-> t] : t \in Tokens}

NoContext == [preview |-> "undefined", hasPreviewData |-> FALSE, ref |-> UndefinedRef]

\* preview = false (default value of the destructured parameter)
PreviewParam(ctx) == IF ctx.preview = "undefined" THEN FALSE ELSE ctx.preview = "true"

\* ref: previewData?.ref ?? null
RefOptionNull(ctx) == NullRef
RefOption(ctx) ==
  IF ~ctx.hasPreviewData \/ ctx.ref = UndefinedRef THEN NullRef ELSE ctx.ref

\* new Date(value).getTime(): new Date(null) is the epoch.
ToTime(date) == IF date = Null THEN 0 ELSE date

\* date-fns compareAsc(dateLeft, dateRight)
compareAsc(dateLeft, dateRight) ==
  LET diff == ToTime(dateLeft) - ToTime(dateRight)
  IN  IF diff < 0 THEN -1 ELSE IF diff > 0 THEN 1 ELSE diff

\* const wasEdited = !!compareAsc(new Date(last), new Date(first))
WasEdited(post) == compareAsc(post.last, post.first) # 0

\* nextPost?.results[0] || null
FirstOrUndefined(results) == IF Len(results) > 0 THEN results[1] ELSE UndefinedDoc
FirstOrNull(results) == IF Len(results) > 0 THEN results[1] ELSE NullDoc

NoOutcome ==
  [kind |-> "none", error |-> "", post |-> UndefinedPost, nextPost |-> NullDoc,
   prevPost |-> NullDoc, wasEdited |-> FALSE, preview |-> FALSE, revalidate |-> 0]
Thrown(error) == [NoOutcome EXCEPT !.kind = "error", !.error = error]

NoResponse == [results |-> <<>>]

Init ==
  /\ store \in Stores
  /\ pc = "idle"
  /\ variant = "none"
  /\ slug = 0
  /\ context = NoContext
  /\ fetchRef = UndefinedRef
  /\ fetchStatus = "none"
  /\ response = UndefinedPost
  /\ nextPost = NoResponse
  /\ prevPost = NoResponse
  /\ nextStatus = "none"
  /\ prevStatus = "none"
  /\ queries = <<>>
  /\ outcome = NoOutcome
  /\ content = <<>>
  /\ isFallback = FALSE
  /\ rpc = "idle"
  /\ index = 0
  /\ accumulator = 0
  /\ readingTime = 0

\* The framework calls the preview-capable getStaticProps.
CallPreview ==
  /\ pc = "idle"
  /\ \E s \in Slugs, ctx \in Contexts :
       /\ slug' = s
       /\ context' = ctx
  /\ variant' = "preview"
  /\ pc' = "getByUID"
  /\ UNCHANGED <<store, fetchRef, fetchStatus, response, nextPost, prevPost,
                 nextStatus, prevStatus, queries, outcome, postVars>>

\* The framework calls the getStaticProps without preview support ({ params }).
CallPlain ==
  /\ pc = "idle"
  /\ \E s \in Slugs : slug' = s
  /\ context' = NoContext
  /\ variant' = "plain"
  /\ pc' = "getByUID"
  /\ UNCHANGED <<store, fetchRef, fetchStatus, response, nextPost, prevPost,
                 nextStatus, prevStatus, queries, outcome, postVars>>

\* The ref option of the primary fetch: { ref: previewData?.ref ?? null } or {}.
FetchOptionRef == IF variant = "preview" THEN RefOption(context) ELSE UndefinedRef

\* await prismic.getByUID('posts', String(slug), ...) resolves: to the post
\* with that uid, or to undefined when the store has no such post.
GetByUID ==
  /\ pc = "getByUID"
  /\ fetchRef' = FetchOptionRef
  /\ fetchStatus' = "resolved"
  /\ IF slug \in DOMAIN store /\ store[slug].type = "posts"
       THEN \E last \in Dates \cup {Null} :
              response' = PostRecord(Doc(slug, "posts", store[slug].first), last)
       ELSE response' = UndefinedPost
  /\ pc' = "queryNext"
  /\ UNCHANGED <<store, variant, slug, context, nextPost, prevPost, nextStatus,
                 prevStatus, queries, outcome, postVars>>

\* await prismic.getByUID(...) rejects: the error leaves getStaticProps.
GetByUIDRejects ==
  /\ pc = "getByUID"
  /\ fetchRef' = FetchOptionRef
  /\ fetchStatus' = "rejected"
  /\ outcome' = Thrown("FetchFailure")
  /\ pc' = "done"
  /\ UNCHANGED <<store, variant, slug, context, response, nextPost, prevPost,
                 nextStatus, prevStatus, queries, postVars>>

\* Evaluating `response.id` / `response.first_publication_date` on undefined.
ResponseUndefined ==
  /\ pc = "queryNext"
  /\ response = UndefinedPost
  /\ outcome' = Thrown("TypeError")
  /\ pc' = "done"
  /\ UNCHANGED <<store, variant, slug, context, fetchRef, fetchStatus, response,
                 nextPost, prevPost, nextStatus, prevStatus, queries, postVars>>

\* The documents a neighbour query matches and the part of an order it returns.
NextQuery ==
  IF variant = "preview"
    THEN [predicate |-> "at(document.type, posts)", after |-> response.id,
          desc |-> FALSE, pageSize |-> PageSize]
    ELSE [predicate |-> "dateAfter(first_publication_date)", after |-> 0,
          desc |-> FALSE, pageSize |-> PageSize]
PrevQuery ==
  IF variant = "preview"
    THEN [predicate |-> "at(document.type, posts)", after |-> response.id,
          desc |-> TRUE, pageSize |-> PageSize]
    ELSE [predicate |-> "dateBefore(first_publication_date)", after |-> 0,
          desc |-> TRUE, pageSize |-> PageSize]

Matching(q) ==
  IF q.predicate = "at(document.type, posts)" THEN AtType(DocsOf(store), "posts")
  ELSE IF q.predicate = "dateAfter(first_publication_date)"
    THEN DateAfter(DocsOf(store), response.first)
    ELSE DateBefore(DocsOf(store), response.first)

\* prismic.query(predicates, options): the answers the store may give.
Answers(q) ==
  {[results |-> Page(IF q.after = 0 THEN s ELSE After(s, q.after), q.pageSize)] :
     s \in Orderings(Matching(q), q.desc)}

StatusOf(answer) == IF Len(answer.results) = 0 THEN "empty" ELSE "found"

\* const nextPost = await prismic.query(...)
QueryNext ==
  /\ pc = "queryNext"
  /\ response # UndefinedPost
  /\ \E a \in Answers(NextQuery) :
       /\ nextPost' = a
       /\ nextStatus' = StatusOf(a)
  /\ queries' = Append(queries, NextQuery)
  /\ pc' = "queryPrev"
  /\ UNCHANGED <<store, variant, slug, context, fetchRef, fetchStatus, response,
                 prevPost, prevStatus, outcome, postVars>>

QueryNextRejects ==
  /\ pc = "queryNext"
  /\ response # UndefinedPost
  /\ nextStatus' = "rejected"
  /\ queries' = Append(queries, NextQuery)
  /\ outcome' = Thrown("FetchFailure")
  /\ pc' = "done"
  /\ UNCHANGED <<store, variant, slug, context, fetchRef, fetchStatus, response,
                 nextPost, prevPost, prevStatus, postVars>>

\* const prevPost = await prismic.query(...)
QueryPrev ==
  /\ pc = "queryPrev"
  /\ \E a \in Answers(PrevQuery) :
       /\ prevPost' = a
       /\ prevStatus' = StatusOf(a)
  /\ queries' = Append(queries, PrevQuery)
  /\ pc' = "return"
  /\ UNCHANGED <<store, variant, slug, context, fetchRef, fetchStatus, response,
                 nextPost, nextStatus, outcome, postVars>>

QueryPrevRejects ==
  /\ pc = "queryPrev"
  /\ prevStatus' = "rejected"
  /\ queries' = Append(queries, PrevQuery)
  /\ outcome' = Thrown("FetchFailure")
  /\ pc' = "done"
  /\ UNCHANGED <<store, variant, slug, context, fetchRef, fetchStatus, response,
                 nextPost, prevPost, nextStatus, postVars>>

\* return { props: { post, nextPost, prevPost, wasEdited, preview }, revalidate }
Props ==
  [kind |-> "props", error |-> "", post |-> response,
   nextPost |-> FirstOrNull(nextPost.results),
   prevPost |-> FirstOrNull(prevPost.results),
   wasEdited |-> WasEdited(response),
   preview |-> IF variant = "preview" THEN PreviewParam(context) ELSE FALSE,
   revalidate |-> Revalidate]

Return ==
  /\ pc = "return"
  /\ outcome' = Props
  /\ pc' = "done"
  /\ UNCHANGED <<store, variant, slug, context, fetchRef, fetchStatus, response,
                 nextPost, prevPost, nextStatus, prevStatus, queries, postVars>>

Next ==
  \/ CallPlain
  \/ CallPreview
  \/ GetByUID
  \/ GetByUIDRejects
  \/ ResponseUndefined
  \/ QueryNext
  \/ QueryNextRejects
  \/ QueryPrev
  \/ QueryPrevRejects
  \/ Return

Spec == Init /\ [][Next]_vars

\* ------------------------------------------------------ the Post component
\* A text is a sequence of characters; a rich-text body is a sequence of
\* fragments ({ text }); post.data.content is a sequence of bodies.
Whitespace == {" ", "\n"}

\* n one-letter words separated by single spaces.
Words(n) == [i \in 1..(2 * n - 1) |-> IF i % 2 = 1 THEN "w" ELSE " "]

\* The bodies a content block is drawn from: no fragment, an empty paragraph,
\* a blank paragraph, short texts with irregular spacing, and texts around
\* the words-per-minute threshold, in one fragment or in two.
Bodies ==
  { <<>>,
    << <<>> >>,
    << <<" ", "\n">> >>,
    << Words(1) >>,
    << <<" ", "w", " ", "\n", "w", " ">> >>,
    << Words(WordsPerMinute - 1) >>,
    << Words(WordsPerMinute) >>,
    << Words(WordsPerMinute \div 2), Words(WordsPerMinute \div 2) >> }

Contents == UNION {[1..n -> Bodies] : n \in 0..MaxBlocks}

\* RichText.asText(body): the fragments' texts joined by a space.
RECURSIVE asText(_)
asText(body) ==
  IF Len(body) = 0 THEN <<>>
  ELSE IF Len(body) = 1 THEN body[1]
  ELSE body[1] \o <<" ">> \o asText(Tail(body))

\* String.prototype.trim()
trim(text) ==
  LET solid == {i \in 1..Len(text) : text[i] \notin Whitespace}
  IN  IF solid = {} THEN <<>>
      ELSE LET lo == CHOOSE i \in solid : \A j \in solid : i <= j
               hi == CHOOSE i \in solid : \A j \in solid : i >= j
           IN  SubSeq(text, lo, hi)

\* String.prototype.split(/\s+/): the pieces between the maximal runs of
\* whitespace, one more than there are runs; a text with no run (the empty
\* text too) is one piece.  Computed by halves: the last piece of the left
\* half continues in the first piece of the right half, and a run that spans
\* the cut is one separator.
RECURSIVE split(_)
split(text) ==
  IF Len(text) = 0 THEN << <<>> >>
  ELSE IF Len(text) = 1
    THEN IF text[1] \in Whitespace THEN << <<>>, <<>> >> ELSE <<text>>
  ELSE LET half == Len(text) \div 2
           left == split(SubSeq(text, 1, half))
           right == split(SubSeq(text, half + 1, Len(text)))
           front == SubSeq(left, 1, Len(left) - 1)
       IN  IF text[half] \in Whitespace /\ text[half + 1] \in Whitespace
             THEN front \o Tail(right)
             ELSE front \o <<left[Len(left)] \o right[1]>> \o Tail(right)

\* const wordsArray = RichText.asText(content.body).trim().split(/\s+/)
wordsArray(body) == split(trim(asText(body)))

\* Math.ceil(wordsCount / 200)
Ceil(a, b) == (a + b - 1) \div b

InitPost ==
  /\ store = <<>>
  /\ pc = "done"
  /\ variant = "none"
  /\ slug = 0
  /\ context = NoContext
  /\ fetchRef = UndefinedRef
  /\ fetchStatus = "none"
  /\ response = UndefinedPost
  /\ nextPost = NoResponse
  /\ prevPost = NoResponse
  /\ nextStatus = "none"
  /\ prevStatus = "none"
  /\ queries = <<>>
  /\ outcome = NoOutcome
  /\ content \in Contents
  /\ isFallback \in BOOLEAN
  /\ rpc = "render"
  /\ index = 0
  /\ accumulator = 0
  /\ readingTime = 0

\* if (isFallback) return <p>Carregando...</p>
RenderFallback ==
  /\ rpc = "render"
  /\ isFallback
  /\ rpc' = "fallback"
  /\ UNCHANGED <<gspVars, content, isFallback, index, accumulator, readingTime>>

\* post.data.content.reduce(..., 0): the initial value
ReduceStart ==
  /\ rpc = "render"
  /\ ~isFallback
  /\ accumulator' = 0
  /\ index' = 1
  /\ rpc' = "reduce"
  /\ UNCHANGED <<gspVars, content, isFallback, readingTime>>

\* the reducer: accumulator + wordsArray.length
ReduceStep ==
  /\ rpc = "reduce"
  /\ index <= Len(content)
  /\ accumulator' = accumulator + Len(wordsArray(content[index]))
  /\ index' = index + 1
  /\ UNCHANGED <<gspVars, content, isFallback, rpc, readingTime>>

\* const readingTime = Math.ceil(wordsCount / 200)
ReadingTime ==
  /\ rpc = "reduce"
  /\ index > Len(content)
  /\ readingTime' = Ceil(accumulator, WordsPerMinute)
  /\ rpc' = "rendered"
  /\ UNCHANGED <<gspVars, content, isFallback, index, accumulator>>

NextPost ==
  \/ RenderFallback
  \/ ReduceStart
  \/ ReduceStep
  \/ ReadingTime

SpecPost == InitPost /\ [][NextPost]_vars

\* ================================================================ claims
Returned == pc = "done" /\ outcome.kind = "props"
Present(d) == d # NullDoc
Posts == AtType(DocsOf(store), "posts")

\* ---------------------------------------------------------------- C1
StrictlyAfter(last, first) == last # Null /\ first # Null /\ last > first

\* C1: the returned wasEdited is true if and only if last_publication_date
\* is strictly after first_publication_date; it is false when they are equal,
\* when the last date is before the first, and when a date is null.
C1_WasEditedIffStrictlyAfter ==
  Returned =>
    (outcome.wasEdited <=> StrictlyAfter(outcome.post.last, outcome.post.first))

\* ---------------------------------------------------------------- C2
\* The word tokens of a text: the maximal runs of non-whitespace characters.
WordTokens(text) ==
  Cardinality({i \in 1..Len(text) :
                 /\ text[i] \notin Whitespace
                 /\ (i = 1 \/ text[i - 1] \in Whitespace)})

RECURSIVE TotalWordTokens(_)
TotalWordTokens(blocks) ==
  IF Len(blocks) = 0 THEN 0
  ELSE WordTokens(asText(blocks[1])) + TotalWordTokens(Tail(blocks))

\* C2: readingTime is the ceiling of (the word tokens of all content blocks
\* together) / 200, however the words are spread over the blocks: it is the
\* least number of minutes m with 200 * m >= tokens.
C2_ReadingTimeIsCeilingOfTokens ==
  rpc = "rendered" =>
    /\ WordsPerMinute * readingTime >= TotalWordTokens(content)
    /\ WordsPerMinute * (readingTime - 1) < TotalWordTokens(content)

\* ---------------------------------------------------------------- C3
\* C3: when the uid resolves to no document, getStaticProps ends with the
\* NotFound outcome and with no other kind of error, produces no props and
\* issues no neighbour query.
C3_MissingUidIsNotFound ==
  (pc = "done" /\ fetchStatus = "resolved" /\ response = UndefinedPost) =>
    /\ outcome.kind = "notFound"
    /\ queries = <<>>

\* ---------------------------------------------------------------- C4
\* C4: in every returned props, post, nextPost and prevPost are pairwise
\* distinct documents whenever present.
C4_NeighboursPairwiseDistinct ==
  Returned =>
    /\ Present(outcome.nextPost) => outcome.nextPost.id # outcome.post.id
    /\ Present(outcome.prevPost) => outcome.prevPost.id # outcome.post.id
    /\ (Present(outcome.nextPost) /\ Present(outcome.prevPost)) =>
         outcome.nextPost.id # outcome.prevPost.id

\* ---------------------------------------------------------------- C5
\* C5: for the most recent post (no post has a later first_publication_date)
\* nextPost is null, and for the oldest post (no post has an earlier one)
\* prevPost is null, whatever else the store holds.
C5_EndsOfTimelineHaveNoNeighbour ==
  Returned =>
    /\ (\A d \in Posts : d.first <= outcome.post.first) =>
         outcome.nextPost = NullDoc
    /\ (\A d \in Posts : d.first >= outcome.post.first) =>
         outcome.prevPost = NullDoc

\* ---------------------------------------------------------------- C6
\* The posts that are neither the current post nor one of its neighbours.
Others == {d \in Posts : d.id \notin {outcome.post.id, outcome.nextPost.id,
                                        outcome.prevPost.id}}

\* C6: a neighbour that is present is temporally adjacent to post: no other
\* post has a date between the two or nearer to post on that side, the posts
\* that share post's exact date included; and a side on which a post lies
\* has a neighbour.
C6_NeighboursAreAdjacent ==
  Returned =>
    /\ Present(outcome.nextPost) =>
         \A d \in Others :
           ~(outcome.post.first <= d.first /\ d.first < outcome.nextPost.first)
    /\ Present(outcome.prevPost) =>
         \A d \in Others :
           ~(outcome.prevPost.first < d.first /\ d.first <= outcome.post.first)
    /\ (\E d \in Posts : d.first > outcome.post.first) => Present(outcome.nextPost)
    /\ (\E d \in Posts : d.first < outcome.post.first) => Present(outcome.prevPost)

\* ---------------------------------------------------------------- C7
\* C7 as stated: a neighbour lookup that fails or returns nothing is not
\* fatal: props are returned, with that neighbour null.
C7_NeighbourFailureNonFatal ==
  pc = "done" =>
    /\ nextStatus \in {"rejected", "empty"} =>
         outcome.kind = "props" /\ outcome.nextPost = NullDoc
    /\ prevStatus \in {"rejected", "empty"} =>
         outcome.kind = "props" /\ outcome.prevPost = NullDoc

\* C7 amended: a neighbour lookup that returns an empty result is not fatal:
\* when no lookup fails, props are returned with the primary post, that
\* neighbour null and the other fields computed as usual; a neighbour lookup
\* that fails (rejects) is fatal: its error leaves getStaticProps and no
\* props are produced.
C7_EmptyNeighbourNonFatal ==
  pc = "done" =>
    /\ (nextStatus = "empty" /\ prevStatus # "rejected") =>
         /\ outcome.kind = "props"
         /\ outcome.nextPost = NullDoc
    /\ prevStatus = "empty" =>
         /\ outcome.kind = "props"
         /\ outcome.prevPost = NullDoc
    /\ (nextStatus = "empty" \/ prevStatus = "empty") /\ outcome.kind = "props" =>
         /\ outcome.post = response
         /\ outcome.wasEdited = (compareAsc(response.last, response.first) # 0)
         /\ outcome.revalidate = Revalidate
         /\ nextStatus = "found" =>
              outcome.nextPost = nextPost.results[1] /\ Present(outcome.nextPost)
         /\ prevStatus = "found" =>
              outcome.prevPost = prevPost.results[1] /\ Present(outcome.prevPost)
    /\ (nextStatus = "rejected" \/ prevStatus = "rejected") =>
         outcome = Thrown("FetchFailure")

\* A post whose next-post query came back empty is returned without it.
C7_Witness ==
  /\ Returned
  /\ nextStatus = "empty"
  /\ prevStatus = "found"
  /\ outcome.nextPost = NullDoc
  /\ Present(outcome.prevPost)
  /\ outcome.post.id = slug

C9_NeighboursArePosts ==
  Returned =>
    /\ Len(nextPost.results) <= 1
    /\ Len(prevPost.results) <= 1
    /\ Present(outcome.nextPost) => outcome.nextPost.type = "posts"
    /\ Present(outcome.prevPost) => outcome.prevPost.type = "posts"

\* ---------------------------------------------------------------- C10
\* A body with no text or only whitespace.
Blank(body) == \A i \in 1..Len(asText(body)) : asText(body)[i] \in Whitespace

\* C10: a post with empty content has a reading time of 0, both when it has
\* no content block and when every block's body is empty or whitespace.
C10_EmptyContentReadsInZero ==
  (rpc = "rendered" /\ \A k \in 1..Len(content) : Blank(content[k])) =>
    readingTime = 0

====
